---------------------------- MODULE Spec2Model ----------------------------
(***************************************************************************)
(* Model of src/moco/builder.py: SplitBatchNorm and MoCo (query encoder,   *)
(* momentum key encoder, negative key queue, batch shuffle, contrastive    *)
(* scoring).                                                               *)
(*                                                                         *)
(* Numbers.  Tensor entries are exact rationals <<n, d>> (d > 0, lowest    *)
(* terms); float rounding is not modelled.  <<1,0>>, <<-1,0>> and <<0,0>>  *)
(* are the IEEE results +inf, -inf and nan of a division by zero.          *)
(* Tensors are 0-based functions, as in the source: a batch of N rows is a *)
(* function on 0..N-1, the queue is queue[c][j] for c in 0..Dim-1 and      *)
(* j in 0..K-1.                                                            *)
(***************************************************************************)
EXTENDS Integers, Sequences, FiniteSets, TLC

VARIABLES
    K,                   \* self.K                      (builder.py:44)
    m,                   \* self.m                      (builder.py:45)
    T,                   \* self.T                      (builder.py:46)
    param_q,             \* encoder_q.parameters()      (builder.py:51)
    param_k,             \* encoder_k.parameters()      (builder.py:52, 82-84)
    queue,               \* buffer "queue", dim x K     (builder.py:87-88)
    queue_ptr,           \* buffer "queue_ptr"          (builder.py:90)
    training,            \* SplitBatchNorm.training     (builder.py:15)
    track_running_stats, \* SplitBatchNorm flag         (builder.py:15)
    running_mean,        \* SplitBatchNorm buffer       (builder.py:16, 22)
    running_var,         \* SplitBatchNorm buffer       (builder.py:17, 23)
    call,                \* the last call made: its name and arguments
    ret,                 \* what that call returned or raised
    hist,                \* history: the most recent K \div B enqueued batches
    steps                \* number of calls so far that do rational arithmetic

vars == <<K, m, T, param_q, param_k, queue, queue_ptr, training,
          track_running_stats, running_mean, running_var, call, ret, hist, steps>>

-----------------------------------------------------------------------------
(* Bounds of the model *)

\* largest queue capacity K explored
MaxK == 4
\* largest batch size N explored by the shuffle calls
MaxN == 3
\* number of calls doing rational arithmetic (momentum updates, batch norms)
MaxSteps == 3
\* number of forward calls
MaxForward == 2

\* dim, the feature dimension (constructor argument)
Dim == 2
\* num_features of SplitBatchNorm (constructor argument): the channels C
NumFeatures == 1
\* num_splits of SplitBatchNorm (constructor argument)
NumSplits == 2

-----------------------------------------------------------------------------
(* Exact rational arithmetic *)

Abs(x) == IF x < 0 THEN -x ELSE x

Sign(x) == IF x < 0 THEN -1 ELSE IF x > 0 THEN 1 ELSE 0

Min(a, b) == IF a <= b THEN a ELSE b

RECURSIVE GCD(_, _)
GCD(a, b) == IF b = 0 THEN a ELSE GCD(b, a % b)

\* the rational n/d in lowest terms with a positive denominator (d # 0)
Rat(n, d) ==
    LET g == GCD(Abs(n), Abs(d))
    IN  <<Sign(d) * (n \div g), Abs(d) \div g>>

R(n) == <<n, 1>>

RAdd(x, y) ==
    LET g == GCD(x[2], y[2])
    IN  Rat(x[1] * (y[2] \div g) + y[1] * (x[2] \div g), (x[2] \div g) * y[2])

RSub(x, y) == RAdd(x, <<-y[1], y[2]>>)

RMul(x, y) == Rat(x[1] * y[1], x[2] * y[2])

\* float division x / y of a finite x: a zero divisor gives +-inf or nan
FDiv(x, y) ==
    IF y[1] = 0 THEN <<Sign(x[1]), 0>>
    ELSE Rat(x[1] * y[2], x[2] * y[1])

\* the square root of a rational that is a perfect square
RSqrt(x) ==
    <<CHOOSE s \in 0..x[1] : s * s = x[1], CHOOSE s \in 1..x[2] : s * s = x[2]>>

RECURSIVE RSum(_, _)
\* sum of f[i] over the finite set S of indices
RSum(f, S) ==
    IF S = {} THEN R(0)
    ELSE LET i == CHOOSE i \in S : TRUE
         IN  RAdd(f[i], RSum(f, S \ {i}))

\* number of rows of a 0-based tensor: x.shape[0]
Shape0(x) == Cardinality(DOMAIN x)

Zero == R(0)
One == R(1)

\* f itself, with its values computed once (TLC otherwise recomputes the
\* body of a function expression every time the function is applied)
Eager(f) == f @@ f

\* the same for a tensor of two dimensions
Eager2(x) == Eager([n \in DOMAIN x |-> Eager(x[n])])

-----------------------------------------------------------------------------
(* Tensors of the model *)

\* the vector of length Dim with s at index i and 0 elsewhere
Unit(i, s) == [c \in 0..(Dim - 1) |-> IF c = i THEN R(s) ELSE Zero]

\* columns a freshly constructed queue may hold (unit vectors)
InitCols == {Unit(0, -1), Unit(1, 1)}

\* key embeddings passed to direct enqueue calls (unit vectors)
KeyVals == {Unit(0, 1), Unit(1, -1)}

\* all batches of n rows over the set S
Batches(S, n) == [0..(n - 1) -> S]

\* nn.functional.normalize(torch.randn(dim, K), dim=0): unit columns
QueueInits(Kq) ==
    {[c \in 0..(Dim - 1) |-> [j \in 0..(Kq - 1) |-> cols[j][c]]] :
        cols \in [0..(Kq - 1) -> InitCols]}

\* column j of a dim x K matrix, as a vector
Col(qu, j) == [c \in 0..(Dim - 1) |-> qu[c][j]]

-----------------------------------------------------------------------------
(* MoCo._dequeue_and_enqueue_single_gpu *)

\* ptr = (ptr + batch_size) % self.K
MovePointerNoWrap(ptr, batch_size, Kq) == ptr + batch_size

\* the pointer never stored back
MovePointerStuck(ptr, batch_size, Kq) == ptr

MovePointer(ptr, batch_size, Kq) == (ptr + batch_size) % Kq

\* self.queue[:, ptr:ptr + batch_size] = keys.T with the slice silently cut at
\* the end of the queue and the part of keys.T that fits written
SliceAssignTruncating(qu, ptr, keys, Kq) ==
    LET batch_size == Shape0(keys)
        cols == ptr..(Min(ptr + batch_size, Kq) - 1)
    IN  [raised |-> "none",
         queue  |-> [c \in 0..(Dim - 1) |-> [j \in 0..(Kq - 1) |->
                        IF j \in cols THEN keys[j - ptr][c] ELSE qu[c][j]]]]

\* self.queue[:, ptr:ptr + batch_size] = keys.T
\* The slice ptr:ptr+batch_size is cut at the end of the queue; keys.T
\* (dim x batch_size) is copied into it when the widths agree or keys.T has a
\* single column to broadcast, and the copy raises otherwise.
SliceAssign(qu, ptr, keys, Kq) ==
    LET batch_size == Shape0(keys)
        cols == ptr..(Min(ptr + batch_size, Kq) - 1)
        width == Cardinality(cols)
    IN  IF width # batch_size /\ batch_size # 1
        THEN [raised |-> "RuntimeError", queue |-> qu]
        ELSE [raised |-> "none",
              queue  |-> [c \in 0..(Dim - 1) |-> [j \in 0..(Kq - 1) |->
                            IF j \in cols
                            THEN keys[IF batch_size = 1 THEN 0 ELSE j - ptr][c]
                            ELSE qu[c][j]]]]

\* the method with the assertion placed after the write instead of before it
EnqueueAssertAfterWrite(Kq, qu, ptr, keys) ==
    LET batch_size == Shape0(keys)
        w == SliceAssign(qu, ptr, keys, Kq)
    IN  IF w.raised # "none"
        THEN [raised |-> w.raised, queue |-> qu, queue_ptr |-> ptr]
        ELSE IF Kq % batch_size # 0
        THEN [raised |-> "AssertionError", queue |-> w.queue, queue_ptr |-> ptr]
        ELSE [raised |-> "none", queue |-> w.queue,
              queue_ptr |-> MovePointer(ptr, batch_size, Kq)]

\* the whole method on (self.K, self.queue, self.queue_ptr) and keys: what it
\* raises and the buffers it leaves
dequeue_and_enqueue_single_gpu(Kq, qu, ptr, keys) ==
    LET batch_size == Shape0(keys)
    IN  IF Kq % batch_size # 0
        THEN [raised |-> "AssertionError", queue |-> qu, queue_ptr |-> ptr]
        ELSE LET w == SliceAssign(qu, ptr, keys, Kq)
             IN  IF w.raised # "none"
                 THEN [raised |-> w.raised, queue |-> qu, queue_ptr |-> ptr]
                 ELSE [raised |-> "none", queue |-> w.queue,
                       queue_ptr |-> MovePointer(ptr, batch_size, Kq)]

-----------------------------------------------------------------------------
(* Construction *)

\* default hyper-parameters m = 0.999 and T = 0.07
DefaultM == <<999, 1000>>
DefaultT == <<7, 100>>

\* the two parameter tensors (weight, bias) of the stand-in encoder
ParamInits == {<<R(1), R(-1)>>, <<R(-2), R(1)>>}

\* SplitBatchNorm.__init__: a new layer is in training mode, its running
\* mean 0 and its running variance 1
BNIdle ==
    /\ training = TRUE
    /\ track_running_stats = TRUE
    /\ running_mean = [c \in 0..(NumFeatures - 1) |-> Zero]
    /\ running_var = [c \in 0..(NumFeatures - 1) |-> One]

\* no call made yet
NoCall ==
    /\ call = [op |-> "init"]
    /\ ret = [raised |-> "none"]
    /\ hist = <<>>
    /\ steps = 0

\* MoCo.__init__ with default m and T and any K of the model
InitQueueSpec ==
    /\ K \in 1..MaxK
    /\ m = DefaultM
    /\ T = DefaultT
    /\ param_q \in ParamInits
    /\ param_k = param_q
    /\ queue \in QueueInits(K)
    /\ queue_ptr = 0
    /\ BNIdle
    /\ NoCall

-----------------------------------------------------------------------------
(* Calls of _dequeue_and_enqueue_single_gpu *)

\* one call self._dequeue_and_enqueue_single_gpu(keys)
EnqueueCall(keys) ==
    \E r \in {dequeue_and_enqueue_single_gpu(K, queue, queue_ptr, keys)} :
        /\ queue' = r.queue
        /\ queue_ptr' = r.queue_ptr
        /\ call' = [op |-> "enqueue", keys |-> keys]
        /\ ret' = [raised |-> r.raised]
        /\ UNCHANGED <<K, m, T, param_q, param_k, training, track_running_stats,
                       running_mean, running_var, steps>>

\* a call with a key batch of any size 1..MaxK
Enqueue ==
    \E n \in 1..MaxK : \E keys \in Batches(KeyVals, n) :
        EnqueueCall(keys) /\ UNCHANGED hist

NextQueue == Enqueue

SpecQueue == InitQueueSpec /\ [][NextQueue]_vars

-----------------------------------------------------------------------------
(* MoCo._batch_shuffle_single_gpu / _batch_unshuffle_single_gpu *)

\* images, each a single pixel value
Images == {0, 1}

\* the values torch.randperm(n) can return
Perms(n) ==
    {p \in [0..(n - 1) -> 0..(n - 1)] : \A i \in 0..(n - 1) : \E j \in 0..(n - 1) : p[j] = i}

\* torch.argsort(p): position i holds the index of the i-th smallest entry
Argsort(p) ==
    Eager([i \in DOMAIN p |->
        CHOOSE j \in DOMAIN p : Cardinality({l \in DOMAIN p : p[l] < p[j]}) = i])

\* x[idx]: row i of the result is row idx[i] of x
Index(x, idx) == Eager([i \in DOMAIN idx |-> x[idx[i]]])

\* the shuffle returning the shuffle index itself as the index for restoring
BatchShuffleNoArgsort(x, idx_shuffle) ==
    [x |-> Index(x, idx_shuffle), idx_unshuffle |-> idx_shuffle]

\* _batch_shuffle_single_gpu(x), idx_shuffle being the drawn permutation
batch_shuffle_single_gpu(x, idx_shuffle) ==
    [x |-> Index(x, idx_shuffle), idx_unshuffle |-> Argsort(idx_shuffle)]

\* the unshuffle that returns its input unchanged
BatchUnshuffleIdentity(x, idx_unshuffle) == x

\* _batch_unshuffle_single_gpu(x, idx_unshuffle)
batch_unshuffle_single_gpu(x, idx_unshuffle) == Index(x, idx_unshuffle)

\* a call of _batch_shuffle_single_gpu on any batch of 1..MaxN images
ShuffleCall ==
    \E n \in 1..MaxN : \E x \in Batches(Images, n) : \E idx_shuffle \in Perms(n) :
        \E r \in {batch_shuffle_single_gpu(x, idx_shuffle)} :
            /\ call' = [op |-> "shuffle", x |-> x, idx_shuffle |-> idx_shuffle]
            /\ ret' = [raised |-> "none", x |-> r.x, idx_unshuffle |-> r.idx_unshuffle]
            /\ UNCHANGED <<K, m, T, param_q, param_k, queue, queue_ptr, training,
                           track_running_stats, running_mean, running_var, hist, steps>>

\* a call of _batch_unshuffle_single_gpu on what the last shuffle returned;
\* call.orig remembers the batch that shuffle was given
UnshuffleCall ==
    /\ call.op = "shuffle"
    /\ call' = [op |-> "unshuffle", x |-> ret.x, idx_unshuffle |-> ret.idx_unshuffle,
                orig |-> call.x]
    /\ ret' = [raised |-> "none",
               x |-> batch_unshuffle_single_gpu(ret.x, ret.idx_unshuffle)]
    /\ UNCHANGED <<K, m, T, param_q, param_k, queue, queue_ptr, training,
                   track_running_stats, running_mean, running_var, hist, steps>>

-----------------------------------------------------------------------------
(* MoCo._momentum_update_key_encoder *)

\* the update with the two coefficients exchanged
MomentumUpdateSwapped(pq, pk, mm) ==
    [i \in 1..Min(Len(pq), Len(pk)) |->
        RAdd(RMul(pk[i], RSub(One, mm)), RMul(pq[i], mm))]

\* param_k.data = param_k.data * self.m + param_q.data * (1. - self.m), for
\* every pair of zip(encoder_q.parameters(), encoder_k.parameters())
momentum_update_key_encoder(pq, pk, mm) ==
    Eager([i \in 1..Min(Len(pq), Len(pk)) |->
        RAdd(RMul(pk[i], mm), RMul(pq[i], RSub(One, mm)))])

\* a call of _momentum_update_key_encoder
MomentumCall ==
    /\ steps < MaxSteps
    /\ param_k' = momentum_update_key_encoder(param_q, param_k, m)
    /\ steps' = steps + 1
    /\ call' = [op |-> "momentum"]
    /\ ret' = [raised |-> "none"]
    /\ UNCHANGED <<K, m, T, param_q, queue, queue_ptr, training,
                   track_running_stats, running_mean, running_var, hist>>

\* values the optimizer may give the query parameters (weight, bias)
ParamVals == ParamInits \cup {<<R(0), R(2)>>}

\* a step of the optimizer, which updates the query parameters only
\* (param_k.requires_grad = False), possibly to the values they have
OptimizerStep ==
    /\ \E p \in ParamVals : param_q' = p
    /\ call' = [op |-> "optimizer"]
    /\ ret' = [raised |-> "none"]
    /\ UNCHANGED <<K, m, T, param_k, queue, queue_ptr, training,
                   track_running_stats, running_mean, running_var, hist, steps>>

\* values of the momentum m explored
MomentumVals == {Zero, <<1, 2>>, <<9, 10>>}

\* MoCo.__init__ with a queue of one column and any m of the model
InitParamSpec ==
    /\ K = 1
    /\ m \in MomentumVals
    /\ T = DefaultT
    /\ param_q \in ParamInits
    /\ param_k = param_q
    /\ queue \in QueueInits(K)
    /\ queue_ptr = 0
    /\ BNIdle
    /\ NoCall

NextShuffle == ShuffleCall \/ UnshuffleCall

SpecShuffle == InitParamSpec /\ [][NextShuffle]_vars

NextMomentum == MomentumCall \/ OptimizerStep

SpecMomentum == InitParamSpec /\ [][NextMomentum]_vars

-----------------------------------------------------------------------------
(* MoCo.forward *)

\* the stand-in for base_encoder(num_classes=dim): parameters p = (weight,
\* bias); the feature of image x[n] is weight * x[n] + bias, in channel
\* x[n] mod dim
Encode(p, x) ==
    Eager2([n \in DOMAIN x |-> [c \in 0..(Dim - 1) |->
        IF c = x[n] % Dim THEN RAdd(RMul(p[1], R(x[n])), p[2]) ELSE Zero]])

\* einsum over c of a[c] * b[c]
Dot(a, b) == RSum([c \in 0..(Dim - 1) |-> RMul(a[c], b[c])], 0..(Dim - 1))

\* nn.functional.normalize(x, dim=1): each row divided by max(norm, eps);
\* a zero row stays zero
Normalize(x) ==
    Eager2([n \in DOMAIN x |->
        LET norm == RSqrt(Dot(x[n], x[n]))
        IN  IF norm = Zero THEN x[n]
            ELSE [c \in 0..(Dim - 1) |-> FDiv(x[n][c], norm)]])

\* lines 165-176: l_pos, l_neg, their concatenation, the division by T
Logits(q, k, qu, Kq, TT) ==
    LET l_pos == Eager([n \in DOMAIN q |-> Dot(q[n], k[n])])
        l_neg == Eager2([n \in DOMAIN q |-> [j \in 0..(Kq - 1) |-> Dot(q[n], Col(qu, j))]])
    IN  Eager2([n \in DOMAIN q |-> [i \in 0..Kq |->
            FDiv(IF i = 0 THEN l_pos[n] ELSE l_neg[n][i - 1], TT)]])

\* forward with the enqueue done before the logits are computed
ForwardEnqueueFirst(self, im_q, im_k, idx_shuffle) ==
    LET q == Normalize(Encode(self.param_q, im_q))
        pk == momentum_update_key_encoder(self.param_q, self.param_k, self.m)
        sh == batch_shuffle_single_gpu(im_k, idx_shuffle)
        k == batch_unshuffle_single_gpu(Normalize(Encode(pk, sh.x)), sh.idx_unshuffle)
        enq == dequeue_and_enqueue_single_gpu(self.K, self.queue, self.queue_ptr, k)
        logits == Logits(q, k, enq.queue, self.K, self.T)
    IN  [raised |-> enq.raised, logits |-> logits,
         labels |-> [n \in DOMAIN logits |-> 0],
         param_k |-> pk, queue |-> enq.queue, queue_ptr |-> enq.queue_ptr]

\* forward(im_q, im_k) on the model state self, idx_shuffle being the
\* permutation drawn by the shuffle: what it raises, what it returns and the
\* key parameters and buffers it leaves
forward(self, im_q, im_k, idx_shuffle) ==
    LET q == Normalize(Encode(self.param_q, im_q))
        pk == momentum_update_key_encoder(self.param_q, self.param_k, self.m)
        sh == batch_shuffle_single_gpu(im_k, idx_shuffle)
        k == batch_unshuffle_single_gpu(Normalize(Encode(pk, sh.x)), sh.idx_unshuffle)
        logits == Logits(q, k, self.queue, self.K, self.T)
        labels == [n \in DOMAIN logits |-> 0]
        enq == dequeue_and_enqueue_single_gpu(self.K, self.queue, self.queue_ptr, k)
    IN  [raised |-> enq.raised, logits |-> logits, labels |-> labels,
         param_k |-> pk, queue |-> enq.queue, queue_ptr |-> enq.queue_ptr]

\* a call forward(im_q, im_k) with two batches of the same size 1..K.
\* The training loop consumes the result and steps the optimizer before it
\* calls forward again.
ForwardCall ==
    /\ steps < MaxForward
    /\ call.op # "forward"
    /\ \E n \in 1..K : \E idx_shuffle \in Perms(n) :
       \E im_q, im_k \in Batches(Images, n) :
          \E r \in {forward([K |-> K, m |-> m, T |-> T, param_q |-> param_q,
                             param_k |-> param_k, queue |-> queue,
                             queue_ptr |-> queue_ptr], im_q, im_k, idx_shuffle)} :
              /\ param_k' = r.param_k
              /\ queue' = r.queue
              /\ queue_ptr' = r.queue_ptr
              /\ call' = [op |-> "forward", im_q |-> im_q, im_k |-> im_k]
              /\ ret' = IF r.raised = "none"
                        THEN [raised |-> "none", logits |-> r.logits, labels |-> r.labels]
                        ELSE [raised |-> r.raised]
    /\ steps' = steps + 1
    /\ UNCHANGED <<K, m, T, param_q, training, track_running_stats,
                   running_mean, running_var, hist>>

\* values of the temperature T explored
TemperatureVals == {DefaultT, Zero, R(-1)}

\* MoCo.__init__ with a queue of two columns, m in {0, 1/2} and any T of the
\* model
InitForwardSpec ==
    /\ K = 2
    /\ m \in {Zero, <<1, 2>>}
    /\ T \in TemperatureVals
    /\ param_q \in ParamInits
    /\ param_k = param_q
    /\ queue \in QueueInits(K)
    /\ queue_ptr = 0
    /\ BNIdle
    /\ NoCall

NextForward == ForwardCall \/ OptimizerStep

SpecForward == InitForwardSpec /\ [][NextForward]_vars

\* the last K \div n elements of a sequence of batches of n rows
LastBatches(h, n) ==
    LET keep == K \div n
    IN  IF Len(h) <= keep THEN h
        ELSE [i \in 1..keep |-> h[Len(h) - keep + i]]

\* a training loop with one batch size B dividing K: every call enqueues a
\* batch of the size of the first one
EnqueueFixed ==
    \E n \in 1..MaxK :
        /\ K % n = 0
        /\ IF hist = <<>> THEN TRUE ELSE n = Shape0(hist[1])
        /\ \E keys \in Batches(KeyVals, n) :
              /\ EnqueueCall(keys)
              /\ hist' = IF ret'.raised = "none"
                         THEN LastBatches(Append(hist, keys), n)
                         ELSE hist

NextFifo == EnqueueFixed

SpecFifo == InitQueueSpec /\ [][NextFifo]_vars

-----------------------------------------------------------------------------
(* SplitBatchNorm.forward *)

\* the buffer value None of a layer built with track_running_stats=False
None == <<>>

\* self.momentum of the layer (constructor argument momentum=0.5)
BNMomentum == <<1, 2>>

\* inputs of shape (N, C, 1, 1) with N in {2, 3, 4} and pixels 0 or 1
BNInputs ==
    UNION {Batches([0..(NumFeatures - 1) -> {R(0), R(1)}], n) : n \in {2, 3, 4}}

\* F.batch_norm(x, running_mean, running_var, ..., True, momentum, eps) on x
\* of shape (rows, channels, 1, 1): the batch mean and biased variance of
\* each channel normalize the output; the running statistics move towards
\* the batch mean and the unbiased batch variance by momentum
BatchNormTraining(x, rmean, rvar, momentum) ==
    LET rows == DOMAIN x
        n == Cardinality(rows)
        ch == DOMAIN rmean
        mean == Eager([j \in ch |-> FDiv(RSum([r \in rows |-> x[r][j]], rows), R(n))])
        sq == Eager([j \in ch |->
                  RSum([r \in rows |-> RMul(RSub(x[r][j], mean[j]), RSub(x[r][j], mean[j]))],
                       rows)])
        keep == RSub(One, momentum)
    IN  IF n <= 1
        THEN [raised |-> "ValueError", mean |-> rmean, var |-> rvar,
              running_mean |-> rmean, running_var |-> rvar]
        ELSE [raised |-> "none",
              mean |-> mean,
              var |-> Eager([j \in ch |-> FDiv(sq[j], R(n))]),
              running_mean |-> Eager([j \in ch |->
                  RAdd(RMul(keep, rmean[j]), RMul(momentum, mean[j]))]),
              running_var |-> Eager([j \in ch |->
                  RAdd(RMul(keep, rvar[j]), RMul(momentum, FDiv(sq[j], R(n - 1))))])]

\* the result of a forward call that raised: nothing returned, buffers kept
BNRaised(self, error) ==
    [raised |-> error, path |-> "none", mean |-> None, var |-> None,
     running_mean |-> self.running_mean, running_var |-> self.running_var]

\* SplitBatchNorm.forward(input) on the layer self: what it raises, the path
\* taken and the statistics that normalize the output, and the buffers left
bn_forward(self, input) ==
    LET N == Shape0(input)
        C == NumFeatures
        S == NumSplits
    IN  IF self.training \/ ~self.track_running_stats
        THEN IF self.running_mean = None \/ self.running_var = None
             THEN BNRaised(self, "AttributeError")
             ELSE IF N % S # 0
             THEN BNRaised(self, "RuntimeError")
             ELSE LET running_mean_split ==
                          [j \in 0..(C * S - 1) |-> self.running_mean[j % C]]
                      running_var_split ==
                          [j \in 0..(C * S - 1) |-> self.running_var[j % C]]
                      view == [r \in 0..((N \div S) - 1) |-> [j \in 0..(C * S - 1) |->
                                  input[r * S + (j \div C)][j % C]]]
                      bn == BatchNormTraining(view, running_mean_split,
                                              running_var_split, BNMomentum)
                  IN  IF bn.raised # "none"
                      THEN BNRaised(self, bn.raised)
                      ELSE [raised |-> "none", path |-> "split",
                            mean |-> bn.mean, var |-> bn.var,
                            running_mean |-> Eager([c \in 0..(C - 1) |->
                                FDiv(RSum([s \in 0..(S - 1) |-> bn.running_mean[s * C + c]],
                                          0..(S - 1)), R(S))]),
                            running_var |-> Eager([c \in 0..(C - 1) |->
                                FDiv(RSum([s \in 0..(S - 1) |-> bn.running_var[s * C + c]],
                                          0..(S - 1)), R(S))])]
        ELSE IF self.running_mean = None \/ self.running_var = None
             THEN BNRaised(self, "ValueError")
             ELSE [raised |-> "none", path |-> "standard",
                   mean |-> self.running_mean, var |-> self.running_var,
                   running_mean |-> self.running_mean,
                   running_var |-> self.running_var]

\* a call of SplitBatchNorm.forward
BNForwardCall ==
    /\ steps < MaxSteps
    /\ \E input \in BNInputs :
       \E r \in {bn_forward([training |-> training,
                             track_running_stats |-> track_running_stats,
                             running_mean |-> running_mean,
                             running_var |-> running_var], input)} :
          /\ running_mean' = r.running_mean
          /\ running_var' = r.running_var
          /\ call' = [op |-> "bn_forward", input |-> input]
          /\ ret' = [raised |-> r.raised, path |-> r.path, mean |-> r.mean, var |-> r.var]
    /\ steps' = steps + 1
    /\ UNCHANGED <<K, m, T, param_q, param_k, queue, queue_ptr, training,
                   track_running_stats, hist>>

\* module.train(mode): switch between training and evaluation mode
BNSetMode ==
    /\ training' = ~training
    /\ call' = [op |-> "bn_train"]
    /\ ret' = [raised |-> "none"]
    /\ UNCHANGED <<K, m, T, param_q, param_k, queue, queue_ptr,
                   track_running_stats, running_mean, running_var, hist, steps>>

\* the attribute track_running_stats, read by every forward call, set by the
\* owner of the layer
BNSetTrack ==
    /\ track_running_stats' = ~track_running_stats
    /\ call' = [op |-> "bn_set_track"]
    /\ ret' = [raised |-> "none"]
    /\ UNCHANGED <<K, m, T, param_q, param_k, queue, queue_ptr, training,
                   running_mean, running_var, hist, steps>>

\* SplitBatchNorm.__init__ with track_running_stats True or False; without
\* tracking the layer has no running buffers
InitBNSpec ==
    /\ K = 1
    /\ m = DefaultM
    /\ T = DefaultT
    /\ param_q \in ParamInits
    /\ param_k = param_q
    /\ queue \in QueueInits(K)
    /\ queue_ptr = 0
    /\ training = TRUE
    /\ track_running_stats \in BOOLEAN
    /\ running_mean = IF track_running_stats
                      THEN [c \in 0..(NumFeatures - 1) |-> Zero] ELSE None
    /\ running_var = IF track_running_stats
                     THEN [c \in 0..(NumFeatures - 1) |-> One] ELSE None
    /\ NoCall

NextBN == BNForwardCall \/ BNSetMode \/ BNSetTrack

SpecBN == InitBNSpec /\ [][NextBN]_vars

-----------------------------------------------------------------------------
(* Properties of the queue *)

\* the step is a call of _dequeue_and_enqueue_single_gpu whose batch size
\* divides K
IsEnqueueDividing == call'.op = "enqueue" /\ K % Shape0(call'.keys) = 0

\* the effect C1 describes, of the step's call on (queue, queue_ptr)
EnqueueEffect ==
    LET keys == call'.keys
        B == Shape0(keys)
    IN  /\ \A j \in 0..(B - 1) :
              queue_ptr + j < K /\ Col(queue', queue_ptr + j) = keys[j]
        /\ \A j \in 0..(K - 1) :
              j \notin queue_ptr..(queue_ptr + B - 1) => Col(queue', j) = Col(queue, j)
        /\ queue_ptr' = (queue_ptr + B) % K

\* C1 as stated: in every reachable state, a call with a batch of B keys,
\* K mod B = 0, writes keys transposed into the B columns from the prior ptr,
\* leaves every other column unchanged and sets ptr to (ptr + B) mod K.
C1_Original == [][IsEnqueueDividing => EnqueueEffect]_vars

\* C1 amended: the same effect, for every call whose batch also fits between
\* the prior ptr and the end of the queue (ptr + B <= K).
C1_EnqueueEffect ==
    [][(IsEnqueueDividing /\ queue_ptr + Shape0(call'.keys) <= K)
          => (ret'.raised = "none" /\ EnqueueEffect)]_vars

\* a call of two or more keys has filled the queue up to its last column and
\* wrapped the pointer to 0
C1_Witness ==
    /\ call.op = "enqueue"
    /\ ret.raised = "none"
    /\ Shape0(call.keys) \in 2..(K - 1)
    /\ queue_ptr = 0
    /\ Col(queue, K - 1) = call.keys[Shape0(call.keys) - 1]

\* C3: a call whose batch size B does not divide K raises an error and leaves
\* the queue contents and the write cursor exactly as they were.
C3_IndivisibleRaises ==
    [][(call'.op = "enqueue" /\ K % Shape0(call'.keys) # 0)
          => (/\ ret'.raised = "AssertionError"
              /\ queue' = queue
              /\ queue_ptr' = queue_ptr)]_vars

\* a batch of 3 keys was refused by a queue of 4 columns
C3_Witness ==
    /\ call.op = "enqueue"
    /\ K = 4
    /\ Shape0(call.keys) = 3
    /\ ret.raised = "AssertionError"

\* C9: with one batch size B dividing K, from ptr = 0, the i-th most recent
\* batch (i = 1..K/B, as far as that many were enqueued) sits unmodified in
\* the B columns that end i blocks before the cursor; so each call
\* overwrites the oldest block, and once K/B batches were enqueued the queue
\* holds exactly the most recent K/B batches.
C9_Fifo ==
    hist # <<>> =>
        LET B == Shape0(hist[1])
            L == Len(hist)
        IN  /\ L <= K \div B
            /\ queue_ptr % B = 0
            /\ \A i \in 1..L : \A j \in 0..(B - 1) :
                  Col(queue, ((queue_ptr + K - i * B) % K) + j) = hist[L - i + 1][j]

\* K/B >= 2 batches are in the queue and the cursor stands after the first
\* block: the queue has wrapped and the oldest block was overwritten
C9_Witness ==
    /\ hist # <<>>
    /\ K \div Shape0(hist[1]) >= 2
    /\ Len(hist) = K \div Shape0(hist[1])
    /\ queue_ptr = Shape0(hist[1])
    /\ Shape0(hist[1]) >= 2

\* C10 as stated: in every sequence of calls from ptr = 0 whose batch sizes
\* each divide K, ptr + B <= K holds at each call.
C10_Original ==
    [][IsEnqueueDividing => queue_ptr + Shape0(call'.keys) <= K]_vars

\* C10 amended: in every such sequence a call writes only when ptr + B <= K,
\* and then only inside columns [ptr, ptr + B); a call with ptr + B > K
\* raises and leaves queue and ptr unchanged; and ptr + B <= K holds whenever
\* B also divides ptr (as it does when every batch has the same size).
C10_NoPartialWrite ==
    [][IsEnqueueDividing =>
          LET B == Shape0(call'.keys)
          IN  /\ queue_ptr + B > K =>
                    (/\ ret'.raised = "RuntimeError"
                     /\ queue' = queue
                     /\ queue_ptr' = queue_ptr)
              /\ \A j \in 0..(K - 1) :
                    Col(queue', j) # Col(queue, j) =>
                        (queue_ptr <= j /\ j < queue_ptr + B /\ queue_ptr + B <= K)
              /\ queue_ptr % B = 0 => queue_ptr + B <= K]_vars

\* a batch whose size divides K did not fit before the end of the queue and
\* was refused
C10_Witness ==
    /\ call.op = "enqueue"
    /\ K % Shape0(call.keys) = 0
    /\ queue_ptr + Shape0(call.keys) > K
    /\ ret.raised = "RuntimeError"

-----------------------------------------------------------------------------
(* Properties of the shuffle and of the momentum update *)

\* number of rows of x equal to v
Count(x, v) == Cardinality({i \in DOMAIN x : x[i] = v})

\* C5: unshuffle applied to a shuffled batch with the returned inverse index
\* gives back the original batch, and the shuffled batch has the length and
\* the multiset of samples of the original.
C5_ShuffleRoundTrip ==
    /\ call.op = "unshuffle" => ret.x = call.orig
    /\ call.op = "shuffle" =>
          /\ DOMAIN ret.x = DOMAIN call.x
          /\ \A v \in Images : Count(ret.x, v) = Count(call.x, v)

\* a batch of three images came back in order from a shuffle that had
\* reordered it and whose permutation is not its own inverse
C5_Witness ==
    /\ call.op = "unshuffle"
    /\ Shape0(call.orig) = 3
    /\ call.idx_unshuffle[call.idx_unshuffle[0]] # 0
    /\ call.x # call.orig
    /\ ret.x = call.orig

\* C6: a momentum update leaves every key parameter at m*k_old + (1-m)*q,
\* stated as k_new - q = m*(k_old - q) for every parameter pair; q is
\* unchanged; with m = 0 the key parameters equal the query parameters.
C6_MomentumUpdate ==
    [][call'.op = "momentum" =>
          /\ param_q' = param_q
          /\ DOMAIN param_k' = DOMAIN param_k
          /\ \A i \in DOMAIN param_k :
                RSub(param_k'[i], param_q[i]) = RMul(m, RSub(param_k[i], param_q[i]))
          /\ m = Zero => param_k' = param_q]_vars

\* after an update with m = 0.9 the key parameters differ from the query
\* parameters in both tensors
C6_Witness ==
    /\ call.op = "momentum"
    /\ m = <<9, 10>>
    /\ \A i \in DOMAIN param_k : param_k[i] # param_q[i]

-----------------------------------------------------------------------------
(* Properties of forward *)

\* the step is a forward call that returned (logits, labels)
ForwardReturned == call'.op = "forward" /\ ret'.raised = "none"

\* the query embeddings of the step's call: encoder_q on im_q, normalized
StepQ == Normalize(Encode(param_q, call'.im_q))

\* the key embeddings of the step's call, in the order of im_k: encoder_k,
\* with the parameters the call left, on each image, normalized
StepK == Normalize(Encode(param_k', call'.im_k))

\* C2: the negative block of the returned logits is computed from the queue
\* as it was before the call, and the call enqueues the key batch exactly
\* once, after that: the queue it leaves is the prior queue with the keys in
\* the columns from the prior ptr, and ptr advanced by N modulo K.
C2_ScoreBeforeEnqueue ==
    [][ForwardReturned =>
          \E q \in {StepQ} : \E k \in {StepK} :
          LET N == Shape0(call'.im_q)
          IN  /\ \A i \in 0..(N - 1) : \A j \in 0..(K - 1) :
                    ret'.logits[i][1 + j] = FDiv(Dot(q[i], Col(queue, j)), T)
              /\ \A j \in 0..(K - 1) :
                    Col(queue', j) = IF queue_ptr <= j /\ j < queue_ptr + N
                                     THEN k[j - queue_ptr]
                                     ELSE Col(queue, j)
              /\ queue_ptr' = (queue_ptr + N) % K]_vars

\* forward returned, and scoring the same queries against the queue it left
\* would have given another negative block
C2_Witness ==
    /\ call.op = "forward"
    /\ ret.raised = "none"
    /\ T = DefaultT
    /\ \E i \in DOMAIN ret.logits : \E j \in 0..(K - 1) :
          ret.logits[i][1 + j] #
              FDiv(Dot(Normalize(Encode(param_q, call.im_q))[i], Col(queue, j)), T)

\* C4: a forward call on batches of N images that returns, returns logits of
\* shape N x (1+K) and N labels all 0; logits[i][0] is dot(q_i, k_i) / T for
\* the key k_i of the i-th key image, and logits[i][1+j] is
\* dot(q_i, queue column j) / T.
C4_LogitsAndLabels ==
    [][ForwardReturned =>
          \E q \in {StepQ} : \E k \in {StepK} :
          LET N == Shape0(call'.im_q)
          IN  /\ DOMAIN ret'.logits = 0..(N - 1)
              /\ \A i \in 0..(N - 1) : DOMAIN ret'.logits[i] = 0..K
              /\ ret'.labels = [i \in 0..(N - 1) |-> 0]
              /\ \A i \in 0..(N - 1) :
                    /\ ret'.logits[i][0] = FDiv(Dot(q[i], k[i]), T)
                    /\ \A j \in 0..(K - 1) :
                          ret'.logits[i][1 + j] = FDiv(Dot(q[i], Col(queue, j)), T)]_vars

\* forward returned for a batch of two whose two positive logits differ
C4_Witness ==
    /\ call.op = "forward"
    /\ ret.raised = "none"
    /\ T = DefaultT
    /\ Shape0(call.im_q) = 2
    /\ ret.logits[0][0] # ret.logits[1][0]
    /\ ret.labels = [i \in 0..1 |-> 0]

\* C7 as stated: with a temperature T <= 0 no forward call returns logits.
C7_NonPositiveTRejected ==
    (call.op = "forward" /\ T[1] <= 0) => ret.raised # "none"

-----------------------------------------------------------------------------
(* Properties of SplitBatchNorm *)

\* C8 as stated: a forward call in evaluation mode, or with tracking of the
\* running statistics disabled, takes the standard non-split path and leaves
\* the running mean and variance unchanged; the buffers are written in
\* training mode only.
C8_StandardPathUnlessTraining ==
    [][call'.op = "bn_forward" =>
          /\ (~training \/ ~track_running_stats) =>
                (/\ ret'.raised = "none"
                 /\ ret'.path = "standard"
                 /\ running_mean' = running_mean
                 /\ running_var' = running_var)
          /\ (running_mean' # running_mean \/ running_var' # running_var) => training]_vars

=============================================================================
